---- MODULE Spec2Model ----
(***************************************************************************)
(* Model of IO_loop.py: the traffic-light polling loop (main), the data    *)
(* fetcher with its one-shot credential refresh (fetch_latest_rows), the   *)
(* timestamp normaliser (iso_utc) and the indicator stubs.                 *)
(*                                                                         *)
(* Time is counted in tenths of a second, so that POLL_INTERVAL_SEC (1.1   *)
(* s), the 55 s countdown and STALE_AFTER (2 min) are all exact.  The      *)
(* clock advances only in the sleeps; every other call takes no time.      *)
(***************************************************************************)
EXTENDS Integers, Sequences, FiniteSets, TLC

VARIABLES
    pc,                 \* position in main: "start", "probe", "loop", "exited"
    now,                \* datetime.now(timezone.utc), in tenths of a second
    token,              \* main's local `token`
    issued,             \* number of credentials the token endpoint has issued
    last_to,            \* main's local `last_to`
    in_failure,         \* main's local `in_failure`
    first_after_start,  \* main's local `first_after_start`
    led,                \* what the LED shows: "off", a colour, or "blink"
    net,                \* what the network answered in the latest step
    fetched,            \* what fetch_latest_rows did in the latest step
    calls,              \* indicator calls made by the latest step, in order
    held,               \* the latest step ran the 55 s countdown
    raised,             \* the latest step ended in its `except` handler
    checked_at,         \* clock value the latest step ended its checks at
    applied_tos,        \* end-instants applied so far (history)
    fail_signals,       \* failure_mode calls since the latest led_ok (history)
    between,            \* failure_mode calls between the latest two led_ok
    cycles              \* number of loop iterations done (history)

vars == <<pc, now, token, issued, last_to, in_failure, first_after_start, led,
          net, fetched, calls, held, raised, checked_at, applied_tos,
          fail_signals, between, cycles>>

----------------------------------------------------------------------------
(* Program constants *)

POLL_INTERVAL_SEC == 11
STALE_AFTER == 1200
SETTLE_SEC == 550
WINDOW == 6000
MINUTE == 600
None == -100000

\* The value map as it would be with one more label, mapped to 0.
VALUE_MAP_WithPurple ==
    [l \in {"BLUE", "GREEN_POS", "GREEN_NEG", "YELLOW_POS", "YELLOW_NEG",
            "RED_POS", "RED_NEG", "PURPLE"} |->
        CASE l = "GREEN_POS" -> 1
          [] l = "GREEN_NEG" -> -1
          [] l = "YELLOW_POS" -> 2
          [] l = "YELLOW_NEG" -> -2
          [] l = "RED_POS" -> 3
          [] l = "RED_NEG" -> -3
          [] OTHER -> 0]

VALUE_MAP ==
    [l \in {"BLUE", "GREEN_POS", "GREEN_NEG", "YELLOW_POS", "YELLOW_NEG",
            "RED_POS", "RED_NEG"} |->
        CASE l = "BLUE" -> 0
          [] l = "GREEN_POS" -> 1
          [] l = "GREEN_NEG" -> -1
          [] l = "YELLOW_POS" -> 2
          [] l = "YELLOW_NEG" -> -2
          [] l = "RED_POS" -> 3
          [] l = "RED_NEG" -> -3]

----------------------------------------------------------------------------
(* Bounds *)

MaxCycles == 4
MaxTokens == 2
SignalCap == 2

----------------------------------------------------------------------------
(* Timestamps, rows and network answers *)

\* A timestamp string: the wall-clock reading it spells and its suffix
\* ("Z", "+00:00", "" for no offset, "?" for text that is not ISO-8601).
Ts(c, z) == [clock |-> c, suffix |-> z]

iso_utc(ts) ==
    LET ts2 == IF ts.suffix = "Z" THEN Ts(ts.clock, "+00:00") ELSE ts
    IN  IF ts2.suffix \notin {"+00:00", ""}
        THEN [raised |-> TRUE, dt |-> 0]
        ELSE [raised |-> FALSE, dt |-> ts2.clock]

\* End-instants the upstream reports: just stale and just fresh at process
\* start, just too old and just young enough to survive a countdown begun
\* in the second cycle, and the instant of the start itself.
Instants ==
    { 0 - STALE_AFTER - 1, 0 - STALE_AFTER,
      POLL_INTERVAL_SEC - (STALE_AFTER - SETTLE_SEC) - 1,
      POLL_INTERVAL_SEC - (STALE_AFTER - SETTLE_SEC),
      0 }

LabelInputs == {"BLUE", "RED_POS", "PURPLE"}

Row(i, z, v) == [From |-> Ts(i - MINUTE, z), To |-> Ts(i, z), Value |-> v]

\* Every end-instant under one label, and every label at the two ends.
GoodRows ==
    { Row(i, "Z", "BLUE") : i \in Instants }
    \cup { Row(i, "Z", v) : i \in {0 - STALE_AFTER - 1, 0}, v \in LabelInputs }

OddRows ==
    { Row(0, "+00:00", "BLUE"), Row(0, "", "RED_POS"), Row(0, "?", "BLUE"),
      [From |-> Ts(0 - MINUTE, "Z"), Value |-> "BLUE"],
      [From |-> Ts(0 - MINUTE, "Z"), To |-> Ts(0, "Z")],
      [To |-> Ts(0, "Z"), Value |-> "RED_POS"],
      [From |-> Ts(0 - MINUTE, "?"), To |-> Ts(0 - STALE_AFTER, "Z"),
       Value |-> "BLUE"] }

Decoy == Row(0, "Z", "PURPLE")

\* Rows that are 2 min 1 s and 1 min 59 s old at process start.
BoundaryRows ==
    { Row(0 - STALE_AFTER - 10, "Z", "BLUE"),
      Row(0 - STALE_AFTER + 10, "Z", "BLUE") }

RowSeqs ==
    {<<>>} \cup { <<r>> : r \in GoodRows \cup OddRows \cup BoundaryRows }
           \cup { <<Decoy, Row(0 - STALE_AFTER, "Z", "BLUE")>> }

\* Bodies answered to a retried request: none, or one well-formed row.
RetryRowSeqs ==
    {<<>>} \cup { <<Row(i, "Z", "BLUE")>> : i \in {0 - STALE_AFTER - 1, 0} }

\* One fetch's network behaviour: the status of the first data request, of
\* the token request and of the retried data request ("-" = not reached),
\* and the JSON body of the request that succeeds.
Net(a, t, b, rows) == [r1 |-> a, tk |-> t, r2 |-> b, rows |-> rows]

NetInputs ==
    { Net("200", "-", "-", rows) : rows \in RowSeqs }
    \cup { Net("401", "200", "200", rows) : rows \in RetryRowSeqs }
    \cup { Net(a, "-", "-", <<>>) : a \in {"500", "timeout"} }
    \cup { Net("401", "500", "-", <<>>) }
    \cup { Net("401", "200", b, <<>>) : b \in {"401", "500"} }

NoNet == Net("-", "-", "-", <<>>)

----------------------------------------------------------------------------
(* Session manager and data fetcher *)

get_token(n, status) ==
    IF status = "200"
    THEN [raised |-> FALSE, token |-> n + 1]
    ELSE [raised |-> TRUE, token |-> 0]

\* The URL of a fetch: the trailing ten minutes up to the current minute.
ApiUrl(t) ==
    LET to_utc == t - (t % MINUTE)
    IN  [from_utc |-> to_utc - WINDOW, to_utc |-> to_utc]

Get(url, tok) == [url |-> url, bearer |-> tok]

\* fetch_latest_rows as it would be if it kept retrying after the refresh.
fetch_latest_rows_Retrying(tok, n, t, nw) ==
    LET api_url == ApiUrl(t)
        first   == Get(api_url, tok)
        second  == Get(api_url, n + 1)
    IN  IF nw.r1 = "200"
        THEN [raised |-> FALSE, rows |-> nw.rows, token |-> tok,
              gets |-> <<first>>, toks |-> 0]
        ELSE IF nw.r1 = "401" /\ nw.tk = "200"
        THEN IF nw.r2 = "200"
             THEN [raised |-> FALSE, rows |-> nw.rows, token |-> n + 1,
                   gets |-> <<first, second>>, toks |-> 1]
             ELSE [raised |-> TRUE, rows |-> <<>>, token |-> tok,
                   gets |-> <<first, second, second>>, toks |-> 1]
        ELSE [raised |-> TRUE, rows |-> <<>>, token |-> tok,
              gets |-> <<first>>, toks |-> IF nw.r1 = "401" THEN 1 ELSE 0]

\* fetch_latest_rows as it would be if it returned the token it was given
\* after a successful retry.
fetch_latest_rows_OldToken(tok, n, t, nw) ==
    LET api_url == ApiUrl(t)
        first   == Get(api_url, tok)
        second  == Get(api_url, n + 1)
    IN  IF nw.r1 = "200"
        THEN [raised |-> FALSE, rows |-> nw.rows, token |-> tok,
              gets |-> <<first>>, toks |-> 0]
        ELSE IF nw.r1 = "401" /\ nw.tk = "200"
        THEN [raised |-> nw.r2 # "200", rows |-> nw.rows, token |-> tok,
              gets |-> <<first, second>>, toks |-> 1]
        ELSE [raised |-> TRUE, rows |-> <<>>, token |-> tok,
              gets |-> <<first>>, toks |-> IF nw.r1 = "401" THEN 1 ELSE 0]

\* fetch_latest_rows as it would be if every failed first request, not only
\* a 401, made it ask for a new token.
fetch_latest_rows_AnyError(tok, n, t, nw) ==
    LET api_url == ApiUrl(t)
        first   == Get(api_url, tok)
    IN  IF nw.r1 = "200"
        THEN [raised |-> FALSE, rows |-> nw.rows, token |-> tok,
              gets |-> <<first>>, toks |-> 0]
        ELSE LET g == get_token(n, nw.tk)
             IN  IF g.raised
                 THEN [raised |-> TRUE, rows |-> <<>>, token |-> tok,
                       gets |-> <<first>>, toks |-> 1]
                 ELSE IF nw.r2 = "200"
                 THEN [raised |-> FALSE, rows |-> nw.rows, token |-> g.token,
                       gets |-> <<first, Get(api_url, g.token)>>, toks |-> 1]
                 ELSE [raised |-> TRUE, rows |-> <<>>, token |-> tok,
                       gets |-> <<first, Get(api_url, g.token)>>, toks |-> 1]

fetch_latest_rows(tok, n, t, nw) ==
    LET api_url == ApiUrl(t)
        first   == Get(api_url, tok)
    IN  IF nw.r1 = "200"
        THEN [raised |-> FALSE, rows |-> nw.rows, token |-> tok,
              gets |-> <<first>>, toks |-> 0]
        ELSE IF nw.r1 = "401"
        THEN LET g == get_token(n, nw.tk)
             IN  IF g.raised
                 THEN [raised |-> TRUE, rows |-> <<>>, token |-> tok,
                       gets |-> <<first>>, toks |-> 1]
                 ELSE LET second == Get(api_url, g.token)
                      IN  IF nw.r2 = "200"
                          THEN [raised |-> FALSE, rows |-> nw.rows,
                                token |-> g.token,
                                gets |-> <<first, second>>, toks |-> 1]
                          ELSE [raised |-> TRUE, rows |-> <<>>, token |-> tok,
                                gets |-> <<first, second>>, toks |-> 1]
        ELSE [raised |-> TRUE, rows |-> <<>>, token |-> tok,
              gets |-> <<first>>, toks |-> 0]

NoFetch == [raised |-> FALSE, rows |-> <<>>, token |-> 0, gets |-> <<>>,
            toks |-> 0]

\* Credentials issued by the token endpoint during a fetch.
Issues(nw) == IF nw.r1 = "401" /\ nw.tk = "200" THEN 1 ELSE 0

----------------------------------------------------------------------------
(* Indicator driver *)

Call(f, a) == [fn |-> f, arg |-> a]

led_ok(color) == <<Call("led_ok", color)>>

apply_state(api_value) ==
    LET v == VALUE_MAP[api_value]
    IN  CASE v = 0 -> led_ok("blue")
          [] v = 1 -> led_ok("green")
          [] v = -1 -> led_ok("green")
          [] v = 2 -> led_ok("yellow")
          [] v = -2 -> led_ok("yellow")
          [] v = 3 -> led_ok("red")
          [] v = -3 -> led_ok("red")

failure_mode == <<Call("led_error_blink", ""), Call("buzzer_error", "")>>

self_test_start == <<Call("self_test_start", "")>>
self_test_success == <<Call("self_test_success", "")>>
self_test_fail == <<Call("self_test_fail", "")>>

Min(a, b) == IF a < b THEN a ELSE b

\* The effect of a sequence of driver calls on what the LED shows and on
\* the counts of failure signals relative to the state renders.
RECURSIVE Render(_, _)
Render(r, cs) ==
    IF cs = <<>> THEN r
    ELSE LET c == Head(cs)
             r2 == CASE c.fn = "led_ok" ->
                          [led |-> c.arg, fail_signals |-> 0,
                           between |-> r.fail_signals]
                      [] c.fn = "led_error_blink" ->
                          [led |-> "blink",
                           fail_signals |-> Min(r.fail_signals + 1, SignalCap),
                           between |-> r.between]
                      [] OTHER -> r
         IN  Render(r2, Tail(cs))

----------------------------------------------------------------------------
(* main: the bodies of the two try blocks *)

Has(row, field) == field \in DOMAIN row

Did(cs, f) == \E i \in 1..Len(cs) : cs[i].fn = f

Body(r, lt, inf, fas, cs, h) ==
    [raised |-> r, last_to |-> lt, in_failure |-> inf,
     first_after_start |-> fas, calls |-> cs, held |-> h]

\* Lines 129-145: the try block of the startup probe, run at clock value t.
ProbeTry(f, t, lt, inf, fas) ==
    IF f.raised THEN Body(TRUE, lt, inf, fas, <<>>, FALSE)
    ELSE IF f.rows = <<>>
    THEN Body(FALSE, lt, TRUE, fas, self_test_fail \o failure_mode, FALSE)
    ELSE LET latest == f.rows[Len(f.rows)]
         IN  IF ~Has(latest, "To") \/ iso_utc(latest.To).raised
             THEN Body(TRUE, lt, inf, fas, <<>>, FALSE)
             ELSE LET latest_to == iso_utc(latest.To).dt
                      age == t - latest_to
                  IN  IF age > STALE_AFTER
                      THEN Body(FALSE, lt, TRUE, fas,
                                self_test_fail \o failure_mode, FALSE)
                      ELSE IF ~Has(latest, "Value")
                              \/ latest.Value \notin DOMAIN VALUE_MAP
                      THEN Body(TRUE, lt, inf, fas, self_test_success, FALSE)
                      ELSE LET cs == self_test_success
                                        \o apply_state(latest.Value)
                           IN  IF ~Has(latest, "From")
                                  \/ iso_utc(latest.From).raised
                               THEN Body(TRUE, latest_to, FALSE, fas, cs, FALSE)
                               ELSE Body(FALSE, latest_to, FALSE, fas, cs, FALSE)

\* The probe as it would be if its handler forgot to set in_failure.
Probe_NoFlag(f, t, lt, inf, fas) ==
    LET b == ProbeTry(f, t, lt, inf, fas)
    IN  IF b.raised
        THEN [b EXCEPT !.calls = b.calls \o self_test_fail \o failure_mode]
        ELSE b

\* Lines 128-147: the probe with its except handler.
Probe(f, t, lt, inf, fas) ==
    LET b == ProbeTry(f, t, lt, inf, fas)
    IN  IF b.raised
        THEN [b EXCEPT !.calls = b.calls \o self_test_fail \o failure_mode,
                       !.in_failure = TRUE]
        ELSE b

\* The comparison of line 164 as it would be with >= or with !=.
IsNewer_OrEqual(latest_to, lt) == lt = None \/ latest_to >= lt

IsNewer_Differs(latest_to, lt) == lt = None \/ latest_to # lt

\* Line 164: is the row's end-instant to be applied?
IsNewer(latest_to, lt) == lt = None \/ latest_to > lt

\* The stale check as it would be if a fresh row did not clear the failure.
StaleCheck_KeepsFailure(t, latest_to, inf) ==
    LET age == t - latest_to
    IN  IF age > STALE_AFTER
        THEN IF ~inf THEN [calls |-> failure_mode, in_failure |-> TRUE]
                     ELSE [calls |-> <<>>, in_failure |-> inf]
        ELSE [calls |-> <<>>, in_failure |-> inf]

\* The stale check as it would be with >= in place of >.
StaleCheck_AtLeast(t, latest_to, inf) ==
    LET age == t - latest_to
    IN  IF age >= STALE_AFTER
        THEN IF ~inf THEN [calls |-> failure_mode, in_failure |-> TRUE]
                     ELSE [calls |-> <<>>, in_failure |-> inf]
        ELSE [calls |-> <<>>, in_failure |-> FALSE]

\* Lines 182-188: the stale check, made at clock value t.
StaleCheck(t, latest_to, inf) ==
    LET age == t - latest_to
    IN  IF age > STALE_AFTER
        THEN IF ~inf THEN [calls |-> failure_mode, in_failure |-> TRUE]
                     ELSE [calls |-> <<>>, in_failure |-> inf]
        ELSE [calls |-> <<>>, in_failure |-> FALSE]

\* The try block as it would be if the row's age were taken at fetch time,
\* before the countdown.
CycleTry_CheckAtFetch(f, t, lt, inf, fas) ==
    IF f.raised THEN Body(TRUE, lt, inf, fas, <<>>, FALSE)
    ELSE IF f.rows = <<>>
    THEN IF ~inf THEN Body(FALSE, lt, TRUE, fas, failure_mode, FALSE)
                 ELSE Body(FALSE, lt, inf, fas, <<>>, FALSE)
    ELSE LET latest == f.rows[Len(f.rows)]
             val == IF Has(latest, "Value") THEN latest.Value ELSE "None"
         IN  IF val \notin DOMAIN VALUE_MAP
             THEN IF ~inf THEN Body(FALSE, lt, TRUE, fas, failure_mode, FALSE)
                          ELSE Body(FALSE, lt, inf, fas, <<>>, FALSE)
             ELSE IF ~Has(latest, "To") \/ iso_utc(latest.To).raised
             THEN Body(TRUE, lt, inf, fas, <<>>, FALSE)
             ELSE LET latest_to == iso_utc(latest.To).dt
                  IN  IF IsNewer(latest_to, lt)
                      THEN IF ~Has(latest, "From") \/ iso_utc(latest.From).raised
                           THEN Body(TRUE, latest_to, inf, fas,
                                     apply_state(val), FALSE)
                           ELSE LET h  == ~fas
                                    t2 == IF h THEN t + SETTLE_SEC ELSE t
                                    s  == StaleCheck(t, latest_to, inf)
                                IN  Body(FALSE, latest_to, s.in_failure, FALSE,
                                         apply_state(val) \o s.calls, h)
                      ELSE LET s == StaleCheck(t, latest_to, inf)
                           IN  Body(FALSE, lt, s.in_failure, fas, s.calls, FALSE)

\* Lines 151-188: the try block of one loop iteration begun at clock value t.
CycleTry(f, t, lt, inf, fas) ==
    IF f.raised THEN Body(TRUE, lt, inf, fas, <<>>, FALSE)
    ELSE IF f.rows = <<>>
    THEN IF ~inf THEN Body(FALSE, lt, TRUE, fas, failure_mode, FALSE)
                 ELSE Body(FALSE, lt, inf, fas, <<>>, FALSE)
    ELSE LET latest == f.rows[Len(f.rows)]
             val == IF Has(latest, "Value") THEN latest.Value ELSE "None"
         IN  IF val \notin DOMAIN VALUE_MAP
             THEN IF ~inf THEN Body(FALSE, lt, TRUE, fas, failure_mode, FALSE)
                          ELSE Body(FALSE, lt, inf, fas, <<>>, FALSE)
             ELSE IF ~Has(latest, "To") \/ iso_utc(latest.To).raised
             THEN Body(TRUE, lt, inf, fas, <<>>, FALSE)
             ELSE LET latest_to == iso_utc(latest.To).dt
                  IN  IF IsNewer(latest_to, lt)
                      THEN IF ~Has(latest, "From") \/ iso_utc(latest.From).raised
                           THEN Body(TRUE, latest_to, inf, fas,
                                     apply_state(val), FALSE)
                           ELSE LET h  == ~fas
                                    t2 == IF h THEN t + SETTLE_SEC ELSE t
                                    s  == StaleCheck(t2, latest_to, inf)
                                IN  Body(FALSE, latest_to, s.in_failure, FALSE,
                                         apply_state(val) \o s.calls, h)
                      ELSE LET s == StaleCheck(t, latest_to, inf)
                           IN  Body(FALSE, lt, s.in_failure, fas, s.calls, FALSE)

\* The loop iteration as it would be if its handler signalled every error.
Cycle_Resignal(f, t, lt, inf, fas) ==
    LET b == CycleTry(f, t, lt, inf, fas)
    IN  IF b.raised
        THEN [b EXCEPT !.calls = b.calls \o failure_mode, !.in_failure = TRUE]
        ELSE b

\* The loop iteration as it would be if entering failure on an error set
\* first_after_start again.
Cycle_ResetsFlag(f, t, lt, inf, fas) ==
    LET b == CycleTry(f, t, lt, inf, fas)
    IN  IF b.raised /\ ~b.in_failure
        THEN [b EXCEPT !.calls = b.calls \o failure_mode, !.in_failure = TRUE,
                       !.first_after_start = TRUE]
        ELSE b

\* Lines 150-192: one loop iteration with its except handler.
Cycle(f, t, lt, inf, fas) ==
    LET b == CycleTry(f, t, lt, inf, fas)
    IN  IF b.raised /\ ~b.in_failure
        THEN [b EXCEPT !.calls = b.calls \o failure_mode, !.in_failure = TRUE]
        ELSE b

\* The loop as it would be if its handler let the error escape.
AfterCycle_Uncaught(b) == IF b.raised THEN "exited" ELSE "loop"

\* Lines 190-194 and 149: `except Exception` catches whatever the try block
\* raised, the iteration sleeps and `while True` begins the next one.
AfterCycle(b) == "loop"

----------------------------------------------------------------------------
(* The state machine *)

Init ==
    /\ pc = "start"
    /\ now = 0
    /\ token = 0
    /\ issued = 0
    /\ last_to = None
    /\ in_failure = FALSE
    /\ first_after_start = TRUE
    /\ led = "off"
    /\ net = NoNet
    /\ fetched = NoFetch
    /\ calls = <<>>
    /\ held = FALSE
    /\ raised = FALSE
    /\ checked_at = 0
    /\ applied_tos = {}
    /\ fail_signals = 0
    /\ between = 0
    /\ cycles = 0

\* What a step's driver calls and applied row do to the history variables.
Record(b) ==
    LET r == Render([led |-> led, fail_signals |-> fail_signals,
                     between |-> between], b.calls)
    IN  /\ led' = r.led
        /\ fail_signals' = r.fail_signals
        /\ between' = r.between
        /\ calls' = b.calls
        /\ held' = b.held
        /\ raised' = b.raised
        /\ applied_tos' = IF Did(b.calls, "led_ok")
                          THEN applied_tos \cup {b.last_to}
                          ELSE applied_tos

\* Lines 116-125: load the configuration, get the first token, start the
\* self test.  A failure of get_token is not caught: the process ends.
Start(status) ==
    /\ pc = "start"
    /\ LET g == get_token(issued, status)
       IN  IF g.raised
           THEN /\ pc' = "exited"
                /\ UNCHANGED <<token, issued, calls>>
           ELSE /\ pc' = "probe"
                /\ token' = g.token
                /\ issued' = issued + 1
                /\ calls' = self_test_start
    /\ last_to' = None
    /\ in_failure' = FALSE
    /\ first_after_start' = TRUE
    /\ UNCHANGED <<now, led, net, fetched, held, raised, checked_at,
                   applied_tos, fail_signals, between, cycles>>

\* Lines 128-147: the startup probe.
StartupProbe(nw) ==
    /\ pc = "probe"
    /\ issued + Issues(nw) <= MaxTokens
    /\ LET f == fetch_latest_rows(token, issued, now, nw)
           b == Probe(f, now, last_to, in_failure, first_after_start)
       IN  /\ token' = IF f.raised THEN token ELSE f.token
           /\ fetched' = f
           /\ last_to' = b.last_to
           /\ in_failure' = b.in_failure
           /\ first_after_start' = b.first_after_start
           /\ Record(b)
    /\ issued' = issued + Issues(nw)
    /\ net' = nw
    /\ checked_at' = now
    /\ pc' = "loop"
    /\ UNCHANGED <<now, cycles>>

\* Lines 150-194: one iteration of the loop, with the sleep that ends it.
PollCycle(nw) ==
    /\ pc = "loop"
    /\ cycles < MaxCycles
    /\ issued + Issues(nw) <= MaxTokens
    /\ LET f == fetch_latest_rows(token, issued, now, nw)
           b == Cycle(f, now, last_to, in_failure, first_after_start)
           t2 == IF b.held THEN now + SETTLE_SEC ELSE now
       IN  /\ token' = IF f.raised THEN token ELSE f.token
           /\ fetched' = f
           /\ last_to' = b.last_to
           /\ in_failure' = b.in_failure
           /\ first_after_start' = b.first_after_start
           /\ Record(b)
           /\ checked_at' = t2
           /\ now' = t2 + POLL_INTERVAL_SEC
           /\ pc' = AfterCycle(b)
    /\ issued' = issued + Issues(nw)
    /\ net' = nw
    /\ cycles' = cycles + 1

Next ==
    \/ \E status \in {"200", "500"} : Start(status)
    \/ \E nw \in NetInputs : StartupProbe(nw)
    \/ \E nw \in NetInputs : PollCycle(nw)

Spec == Init /\ [][Next]_vars

\* The process is one thread whose network calls time out after 5 s and
\* whose sleeps end: an iteration that can be run is run.
FairSpec == Spec /\ WF_vars(\E nw \in NetInputs : PollCycle(nw))

----------------------------------------------------------------------------
(* Vocabulary of the properties *)

Count(cs, f) == Cardinality({ i \in 1..Len(cs) : cs[i].fn = f })

\* The state right after the startup probe; a state right after an iteration.
Probed == pc = "loop" /\ cycles = 0
Cycled == pc = "loop" /\ cycles >= 1

\* The step being taken is one iteration of the loop.
CycleStep == pc = "loop" /\ pc' = "loop" /\ cycles' = cycles + 1

FetchOk(nw) ==
    \/ nw.r1 = "200"
    \/ nw.r1 = "401" /\ nw.tk = "200" /\ nw.r2 = "200"

HasRows(nw) == FetchOk(nw) /\ nw.rows # <<>>

LatestRow(nw) == nw.rows[Len(nw.rows)]

\* The end-instant of the latest row of an answer; None when there is none.
LatestTo(nw) ==
    IF HasRows(nw) /\ Has(LatestRow(nw), "To")
       /\ ~iso_utc(LatestRow(nw).To).raised
    THEN iso_utc(LatestRow(nw).To).dt
    ELSE None

KnownLabel(nw) ==
    /\ HasRows(nw)
    /\ Has(LatestRow(nw), "Value")
    /\ LatestRow(nw).Value \in DOMAIN VALUE_MAP

IsStale(nw, t) == LatestTo(nw) # None /\ t - LatestTo(nw) > STALE_AFTER

\* The latest poll met a failure condition: an error was raised, the answer
\* had no rows, its latest row had an unknown label or was stale.
PollFailed ==
    \/ raised
    \/ FetchOk(net) /\ net.rows = <<>>
    \/ HasRows(net) /\ ~KnownLabel(net)
    \/ IsStale(net, checked_at)

----------------------------------------------------------------------------
(* Properties *)

\* C1: between two consecutive state renders (led_ok) there is at most one
\* failure signal (led_error_blink).
C1_AtMostOneFailureBetweenRenders == between <= 1

\* C2: in the loop failure_mode is called only in an iteration that begins
\* with in_failure false and ends with it true; in a run of consecutive
\* failing polls the failure is signalled once, on the first of the run, and
\* the later ones leave in_failure true without signalling.
C2_FailureSignalledOncePerRun ==
    [][CycleStep =>
        /\ (Count(calls', "led_error_blink") > 0 => ~in_failure /\ in_failure')
        /\ (PollFailed /\ PollFailed' =>
               /\ Count(calls', "led_error_blink") = 0
               /\ in_failure /\ in_failure')
        /\ (~PollFailed /\ PollFailed' =>
               /\ Count(calls', "led_error_blink") = 1
               /\ in_failure')]_vars

\* A third or later iteration timed out while already in failure, and made
\* no driver call.
C2_Witness ==
    /\ Cycled /\ cycles >= 3
    /\ net.r1 = "timeout"
    /\ in_failure /\ calls = <<>>
    /\ fail_signals = 1

\* C3: a poll whose latest row has an end-instant that was already applied
\* causes no apply_state and no countdown; the loop applies and counts down
\* only for an end-instant strictly greater than last_to (or with last_to
\* unset).
C3_SameEndInstantNotReapplied ==
    [][CycleStep =>
        /\ (LatestTo(net') \in applied_tos =>
               ~Did(calls', "led_ok") /\ ~held')
        /\ (Did(calls', "led_ok") \/ held' =>
               /\ LatestTo(net') # None
               /\ (last_to = None \/ LatestTo(net') > last_to))]_vars

\* An iteration polled the end-instant recorded in last_to under a known
\* label and applied nothing.
C3_Witness ==
    /\ Cycled
    /\ KnownLabel(net)
    /\ LatestTo(net) = last_to
    /\ LatestTo(net) \in applied_tos
    /\ ~Did(calls, "led_ok") /\ ~held

\* C4: last_to, once set, never decreases.
C4_LastToNeverDecreases ==
    [][last_to # None => last_to' # None /\ last_to' >= last_to]_vars

\* An iteration polled a known row older than last_to.
C4_Witness ==
    /\ Cycled
    /\ KnownLabel(net)
    /\ LatestTo(net) # None
    /\ LatestTo(net) < last_to

\* C5: after the probe and after every iteration, in_failure is true exactly
\* when that poll met a failure condition.
C5_InFailureIffPollFailed == pc = "loop" => (in_failure <=> PollFailed)

\* An iteration applied a known row and found it stale.
C5_Witness ==
    /\ Cycled
    /\ ~raised
    /\ KnownLabel(net)
    /\ IsStale(net, checked_at)
    /\ Did(calls, "led_ok")
    /\ in_failure

\* C6: while in_failure holds the LED shows the failure signal.
C6_FailureShownWhileInFailure == in_failure => led = "blink"

\* C7: the probe signals one self-test outcome: self_test_fail with
\* failure_mode and in_failure when the fetch fails, returns no rows or no
\* readable end-instant, or a stale row; otherwise self_test_success once,
\* the state applied, last_to recorded, in_failure false, no self_test_fail.
C7_ProbeSignalsOneOutcome ==
    Probed =>
        IF ~HasRows(net) \/ LatestTo(net) = None \/ IsStale(net, checked_at)
        THEN /\ Count(calls, "self_test_fail") = 1
             /\ Count(calls, "self_test_success") = 0
             /\ Did(calls, "led_error_blink")
             /\ in_failure
        ELSE /\ Count(calls, "self_test_success") = 1
             /\ Count(calls, "self_test_fail") = 0
             /\ Did(calls, "led_ok")
             /\ last_to = LatestTo(net)
             /\ ~in_failure

\* C8: an observation applied by an iteration (that raises no error) is
\* followed by the countdown, unless it is the first observation applied
\* since the start, the probe's application included.
C8_HoldExceptVeryFirstApplied ==
    [][CycleStep /\ Did(calls', "led_ok") /\ ~raised' =>
        (held' <=> applied_tos # {})]_vars

\* C9: an iteration whose latest row has a known label and is found fresh
\* by the stale check ends with in_failure false.
C9_FreshKnownPollClearsFailure ==
    Cycled /\ ~raised /\ KnownLabel(net) /\ LatestTo(net) # None
           /\ ~IsStale(net, checked_at)
        => ~in_failure

\* An iteration cleared the failure without applying anything: the LED still
\* blinks from the earlier failure.
C9_Witness ==
    /\ Cycled
    /\ KnownLabel(net) /\ ~IsStale(net, checked_at)
    /\ calls = <<>>
    /\ led = "blink"
    /\ ~in_failure

\* C10: a fetch sends at most two data requests and asks for at most one
\* token; a 401 on the first request causes one get_token and, if that
\* succeeds, one retry of the same URL with the new token; every other
\* failure propagates without a further request.
C10_OneRefreshOneRetry ==
    pc = "loop" =>
        /\ Len(fetched.gets) <= 2
        /\ fetched.toks <= 1
        /\ (net.r1 = "200" =>
               ~fetched.raised /\ Len(fetched.gets) = 1 /\ fetched.toks = 0)
        /\ (net.r1 \notin {"200", "401"} =>
               fetched.raised /\ Len(fetched.gets) = 1 /\ fetched.toks = 0)
        /\ (net.r1 = "401" => fetched.toks = 1)
        /\ (net.r1 = "401" /\ net.tk # "200" =>
               fetched.raised /\ Len(fetched.gets) = 1)
        /\ (net.r1 = "401" /\ net.tk = "200" =>
               /\ Len(fetched.gets) = 2
               /\ fetched.gets[2].url = fetched.gets[1].url
               /\ fetched.gets[2].bearer = issued
               /\ fetched.gets[2].bearer # fetched.gets[1].bearer
               /\ (fetched.raised <=> net.r2 # "200"))

\* An iteration's retry was rejected as well and the fetch raised.
C10_Witness ==
    /\ Cycled
    /\ net.r1 = "401" /\ net.r2 = "401"
    /\ fetched.raised
    /\ Len(fetched.gets) = 2

\* C11: an iteration whose first request is rejected with 401 and whose
\* retry succeeds ends as the same iteration would with the rows answered
\* at once; its token afterwards is the refreshed one; and the first request
\* of every iteration carries the token the loop held when it began.
C11_RefreshedTokenKeptAndUsed ==
    [][CycleStep =>
        /\ fetched'.gets[1].bearer = token
        /\ (net'.r1 = "401" /\ FetchOk(net') =>
               LET direct == fetch_latest_rows(token, issued, now,
                                               Net("200", "-", "-", net'.rows))
                   b == Cycle(direct, now, last_to, in_failure,
                              first_after_start)
               IN  /\ token' = fetched'.gets[2].bearer
                   /\ token' # token
                   /\ ~fetched'.raised
                   /\ in_failure' = b.in_failure
                   /\ calls' = b.calls
                   /\ last_to' = b.last_to
                   /\ held' = b.held)]_vars

\* An iteration sent, as its first request, the token that an earlier fetch
\* had obtained by a refresh.
C11_Witness ==
    /\ Cycled
    /\ net.r1 = "200"
    /\ issued = 2
    /\ fetched.gets[1].bearer = 2
    /\ token = 2

\* C12: an error raised in an iteration is caught and leaves in_failure
\* true; the loop never leaves the loop on its own, and from every state of
\* the loop further iterations are run (up to the bound on their number).
C12_ErrorsCaughtLoopGoesOn ==
    /\ [][pc = "loop" =>
            /\ pc' = "loop"
            /\ (raised' => in_failure')]_vars
    /\ (pc = "loop") ~> (pc = "loop" /\ cycles = MaxCycles)

\* An iteration that followed another one failed to refresh the credential,
\* was caught and left the loop running in failure.
C12_Witness ==
    /\ Cycled /\ cycles >= 2
    /\ net.r1 = "401" /\ net.tk = "500"
    /\ raised
    /\ in_failure

\* C13: when the first get_token fails (no credential was ever issued) the
\* process goes on: the loop runs, in failure, with the failure signalled.
C13_InitialAuthFailureKeepsRunning ==
    pc # "start" /\ issued = 0 =>
        /\ pc \in {"probe", "loop"}
        /\ in_failure
        /\ led = "blink"

\* The step being taken is a poll: the startup probe or a loop iteration.
PollStep == (pc = "probe" /\ pc' = "loop") \/ CycleStep

\* The seven labels of the table.
SevenLabels == {"BLUE", "GREEN_POS", "GREEN_NEG", "YELLOW_POS", "YELLOW_NEG",
                "RED_POS", "RED_NEG"}

\* The latest row of an answer carries no label of the table.
OutsideMap(nw) ==
    /\ HasRows(nw)
    /\ (Has(LatestRow(nw), "Value") => LatestRow(nw).Value \notin SevenLabels)

\* C14: a poll (probe or iteration) whose latest row has a label outside the
\* table renders no colour, leaves last_to unchanged and ends in failure,
\* whether the row is stale or fresh.
C14_UnknownLabelIsFailure ==
    [][PollStep /\ OutsideMap(net') =>
        /\ ~Did(calls', "led_ok")
        /\ led' \in {led, "blink"}
        /\ last_to' = last_to
        /\ applied_tos' = applied_tos
        /\ in_failure']_vars

\* An iteration polled a fresh row with an unknown label and an end-instant
\* newer than last_to, and ended in failure.
C14_Witness ==
    /\ Cycled
    /\ OutsideMap(net)
    /\ LatestTo(net) # None
    /\ last_to # None
    /\ LatestTo(net) > last_to
    /\ ~IsStale(net, checked_at)
    /\ in_failure

C16_TokenOnlyOn401 ==
    [][/\ (pc = "start" /\ pc' = "probe" => issued' = 1 /\ token' = 1)
       /\ (PollStep =>
              /\ (fetched'.toks > 0 => net'.r1 = "401")
              /\ (issued' # issued => net'.r1 = "401" /\ fetched'.toks = 1)
              /\ (net'.r1 # "401" =>
                     /\ fetched'.toks = 0
                     /\ token' = token
                     /\ issued' = issued))]_vars

\* An iteration's only request failed with a 500: no token was asked for and
\* the loop still holds the token obtained at the start.
C16_Witness ==
    /\ Cycled
    /\ net.r1 = "500"
    /\ fetched.toks = 0
    /\ Len(fetched.gets) = 1
    /\ token = 1 /\ issued = 1

\* The age of the latest known row when the latest poll checked it.
AgeChecked == checked_at - LatestTo(net)

\* C17: a known row that the probe or an iteration checks is treated as
\* stale exactly when its age exceeds two minutes: stale at 2 min 1 s, not
\* stale at 1 min 59 s, not stale at exactly 2 min.
C17_StaleIffOlderThanTwoMinutes ==
    pc = "loop" /\ ~raised /\ KnownLabel(net) /\ LatestTo(net) # None =>
        /\ (in_failure <=> AgeChecked > 2 * MINUTE)
        /\ (AgeChecked = 2 * MINUTE + 10 => in_failure)
        /\ (AgeChecked = 2 * MINUTE - 10 => ~in_failure)
        /\ (AgeChecked = 2 * MINUTE => ~in_failure)

\* An iteration checked a row that was exactly two minutes old and did not
\* enter failure.
C17_Witness ==
    /\ Cycled
    /\ ~raised /\ KnownLabel(net) /\ LatestTo(net) # None
    /\ AgeChecked = 2 * MINUTE
    /\ ~in_failure

\* C18: whenever in_failure is false and an observation has been applied,
\* the LED shows a colour (the latest render is the led_ok of the applied
\* observation), not the failure blink.
C18_ColourShownWhenHealthy ==
    pc = "loop" /\ ~in_failure /\ applied_tos # {} =>
        led \notin {"blink", "off"}

\* C19: whenever the loop is about to poll, its token is the credential the
\* token endpoint issued last.
C19_TokenIsLatestIssued == pc = "loop" => token = issued

\* The step being taken is an iteration that applies a row which was not
\* stale when fetched but more than 65 s old, and runs the countdown.
AppliedOldAndHeld ==
    /\ CycleStep
    /\ held' /\ Did(calls', "led_ok")
    /\ now - LatestTo(net') <= 2 * MINUTE
    /\ now - LatestTo(net') > 650

\* C20 as claimed: such an iteration calls failure_mode and ends in failure,
\* with the row as the applied state.
C20_HeldOldRowSignalsStale ==
    [][AppliedOldAndHeld =>
        /\ Did(calls', "led_error_blink")
        /\ in_failure'
        /\ last_to' = LatestTo(net')]_vars

\* C20 as amended: such an iteration checks the age after the countdown and
\* ends in failure with the row as the applied state; it calls failure_mode
\* exactly when it did not begin in failure.
C20_HeldOldRowIsStale ==
    [][AppliedOldAndHeld =>
        /\ checked_at' = now + 550
        /\ in_failure'
        /\ last_to' = LatestTo(net')
        /\ (Did(calls', "led_error_blink") <=> ~in_failure)]_vars

\* An iteration that began healthy applied a row 65.1 s old, ran the
\* countdown and then signalled the row as stale.
C20_Witness ==
    /\ Cycled
    /\ held
    /\ Did(calls, "led_ok")
    /\ Did(calls, "led_error_blink")
    /\ checked_at - 550 - LatestTo(net) = 651
    /\ last_to = LatestTo(net)
    /\ in_failure

====
